---- MODULE Spec2Model ----
(***************************************************************************)
(* The numeric part of the notebook "Numeric integration and energy        *)
(* density for Ising model": the single-g cell (source lines 106-120),     *)
(* the print sweep (164-178) and the plot sweep (207-234), run top to      *)
(* bottom in one kernel, so that the module-level names i, g, y, I, e and  *)
(* result are shared by the three cells.                                   *)
(*                                                                         *)
(* Representation.  A value of g is an integer number of hundredths        *)
(* (1.0 is 100, 0.1*i is 10*i).  A floating point result is not computed:  *)
(* it is the term that says how it was obtained, a record                  *)
(*   [tag, f, a, b, ier]                                                   *)
(* where f is the set of g values the integrand took while the quadrature  *)
(* evaluated it, a and b are the limits passed, and ier is QUADPACK's      *)
(* termination code (0 converged, 1 subdivision limit reached).            *)
(*                                                                         *)
(* integrate.quad is scipy's wrapper of QUADPACK's QAGS.  The notebook     *)
(* calls it with the default arguments (full_output = 0, limit = 50), and  *)
(* in that mode a call that reaches the subdivision limit issues an        *)
(* IntegrationWarning and returns (estimate, abserr) like any other call.  *)
(* Whether QAGS converges on a given integrand is numerics the model does  *)
(* not compute: the termination code of the first call on an integrand is  *)
(* chosen freely and then kept for every later call on the same integrand  *)
(* (the routine is deterministic and keeps nothing between calls); at most  *)
(* MaxHard integrands are given the code 1.                                *)
(*                                                                         *)
(* Spec is the notebook as it stands.  SpecSweep is the sweep loop of the   *)
(* plot cell alone, on g arrays of any length and content.                 *)
(***************************************************************************)
EXTENDS Integers, Sequences, FiniteSets

\* pc        the statement to run next ("L171" is source line 171; "L170r"
\*           is the making of the iterator of the for statement of line 170)
\* n         the literal 21 of range(0,21) and np.zeros(21)
\* it        the next index the running for loop's iterator will give
\* i, g, y, I, e, result   the module-level names of the notebook
\* out       the lines printed, each with its cell
\* quad      the integrate.quad call in progress
\* calls     the integrate.quad calls finished so far, in order
\* warnings  the IntegrationWarnings issued so far, in order
\* engine    the integrands found to converge (easy) and not to (hard)
VARIABLES pc, n, it, i, g, y, I, e, result, out, quad, calls, warnings, engine

vars == <<pc, n, it, i, g, y, I, e, result, out, quad, calls, warnings, engine>>

(* ---- bounds of the model ---- *)

\* the most integrand evaluations one quadrature call makes in the model
MaxEvals == 2
\* the most integrands on which the engine reaches its subdivision limit
MaxHard == 1
\* the longest g array of the stand-alone sweep (SpecSweep)
MaxLen == 3
\* the g values of the stand-alone sweep are 0.1*k for k in 0..MaxVal
MaxVal == 1

(* ---- program constants ---- *)

\* range(0,21), np.zeros(21): the number of sweep points
NPoints == 21
\* range(0,21): the first index
RangeStart == 0
\* 0.1*i, in hundredths
Step == 10
\* g = 1.0 of the single-g cell, in hundredths
SingleG == 100

\* the limits passed to integrate.quad: 0 and pi (numpy's pi, np.pi)
LowerLimit == "0"
UpperLimit == "pi"

(* ---- values ---- *)

NoValue == [tag |-> "unset", f |-> {}, a |-> "", b |-> "", ier |-> 0]
\* an entry of np.zeros
Zero == [tag |-> "zero", f |-> {}, a |-> "", b |-> "", ier |-> 0]
NoPair == [est |-> NoValue, abserr |-> NoValue]

UnsetG == [kind |-> "unset", val |-> 0, arr |-> <<>>]
FloatG(v) == [kind |-> "float", val |-> v, arr |-> <<>>]
ArrayG(s) == [kind |-> "ndarray", val |-> 0, arr |-> s]

\* np.zeros(k)
Zeros(k) == [j \in 1..k |-> Zero]
ZerosG(k) == ArrayG([j \in 1..k |-> 0])

\* variant: the grid runs from 2.0 down to 0
MutGridValueDescending(k) == Step * (NPoints - 1 - k)
\* variant: the grid starts one step late
MutGridValueOffByOne(k) == Step * (k + 1)
\* 0.1*i
GridValue(k) == Step * k

(* ---- the integrand ---- *)

\* variant: the array lambda reads the g of the point before
MutYReadStale == IF g.kind = "float" THEN g.val
                 ELSE g.arr[IF i >= 1 THEN i ELSE 1]
\* The g that one evaluation of y reads.  A Python lambda holds no copy of
\* g or i: the names are looked up in the module's globals when the body
\* runs.  "lam_g" is lambda x: sqrt((g-cos(x))**2 + sin(x)**2), "lam_gi"
\* is the same with g[i].
YRead == IF y = "lam_g" THEN g.val ELSE g.arr[i + 1]

\* The abscissae at which the model evaluates the integrand: angles x in
\* [0, pi] whose cosine and sine are rational, cos x = c/h and sin x = s/h,
\* so that the radicand is computed exactly.  (QUADPACK's own nodes are
\* irrational multiples of pi.)
Abscissae == {[c |-> 3, s |-> 4, h |-> 5], [c |-> 0, s |-> 1, h |-> 1],
              [c |-> -3, s |-> 4, h |-> 5]}

\* variant: (g-cos(x))**2 - sin(x)**2
MutRadicandMinus(gv, x) ==
    [num |-> (gv * x.h - 100 * x.c) * (gv * x.h - 100 * x.c)
               - (100 * x.s) * (100 * x.s),
     den |-> (100 * x.h) * (100 * x.h)]
\* variant: (g-cos(x))**2 + sin(x)
MutRadicandSinNotSquared(gv, x) ==
    [num |-> (gv * x.h - 100 * x.c) * (gv * x.h - 100 * x.c)
               + (100 * x.s) * (100 * x.h),
     den |-> (100 * x.h) * (100 * x.h)]
\* (g-cos(x))**2 + sin(x)**2, the number under the square root, as the
\* fraction num/den; gv is g in hundredths
Radicand(gv, x) ==
    [num |-> (gv * x.h - 100 * x.c) * (gv * x.h - 100 * x.c)
               + (100 * x.s) * (100 * x.s),
     den |-> (100 * x.h) * (100 * x.h)]

(* ---- integrate.quad ---- *)

\* variant: the routine starts from what the previous call left in I
MutQuadEstimateWarm(f, a, b, ier) ==
    [tag |-> "integral", f |-> f \cup I.est.f, a |-> a, b |-> b, ier |-> ier]
\* the estimate of the integral of the integrand f over [a, b]
QuadEstimate(f, a, b, ier) ==
    [tag |-> "integral", f |-> f, a |-> a, b |-> b, ier |-> ier]

\* the error bound returned with it
QuadAbserr(f, a, b, ier) ==
    [tag |-> "abserr", f |-> f, a |-> a, b |-> b, ier |-> ier]

\* variant: a call that did not converge raises
MutQuadOutcomeRaises(ier) == IF ier = 0 THEN "returned" ELSE "raised"
\* How a call ends for the caller.  With full_output = 0 a call that did
\* not converge warns and returns its pair; nothing is raised.
QuadOutcome(ier) == "returned"

\* whether the call issues an IntegrationWarning
QuadWarns(ier) == ier # 0

\* variant: the division by pi is left out
MutScaleIdentity(v) == v
\* variant: e += (1/pi)*I[0]
MutScaleAccumulates(v) == [v EXCEPT !.tag = "eps", !.f = @ \cup e.f]
\* (1/pi)*I[0]
Scale(v) == [v EXCEPT !.tag = "eps"]

(* ---- control flow ---- *)

CallSites == {"L114", "L174", "L224"}

CellOf(l) == CASE l \in {"L111", "L113", "L114", "L116", "L118", "L120"} -> 3
               [] l \in {"L170r", "L170", "L171", "L173", "L174", "L176", "L178"} -> 4
               [] OTHER -> 5

\* the statement that follows statement l in straight-line order
After(l) == CASE l = "L111" -> "L113"
              [] l = "L113" -> "L114"
              [] l = "L114" -> "L116"
              [] l = "L116" -> "L118"
              [] l = "L118" -> "L120"
              [] l = "L120" -> "L170r"
              [] l = "L170r" -> "L170"
              [] l = "L171" -> "L173"
              [] l = "L173" -> "L174"
              [] l = "L174" -> "L176"
              [] l = "L176" -> "L178"
              [] l = "L178" -> "L170"
              [] l = "L214" -> "L215"
              [] l = "L215" -> "L218r"
              [] l = "L218r" -> "L218"
              [] l = "L219" -> "L218"
              [] l = "L222r" -> "L222"
              [] l = "L223" -> "L224"
              [] l = "L224" -> "L226"
              [] l = "L226" -> "L227"
              [] l = "L227" -> "L222"
              [] OTHER -> "done"

\* the first statement of a for loop's body, and the statement after the loop
Body(l) == CASE l = "L170" -> "L171"
             [] l = "L218" -> "L219"
             [] OTHER -> "L223"
Exit(l) == CASE l = "L170" -> "L214"
             [] l = "L218" -> "L222r"
             [] OTHER -> "done"

\* val is the radicand of the latest evaluation of the integrand
Idle == [active |-> FALSE, a |-> "", b |-> "", seen |-> {}, nev |-> 0,
         val |-> [num |-> 0, den |-> 1]]

(* ---- the notebook ---- *)

Init ==
    /\ pc = "L111"
    /\ n = NPoints
    /\ it = 0
    /\ i = -1
    /\ g = UnsetG
    /\ y = "unset"
    /\ I = NoPair
    /\ e = NoValue
    /\ result = <<>>
    /\ out = <<>>
    /\ quad = Idle
    /\ calls = <<>>
    /\ warnings = <<>>
    /\ engine = [hard |-> {}, easy |-> {}]

\* g = 1.0
AssignG111 ==
    /\ pc = "L111"
    /\ g' = FloatG(SingleG)
    /\ pc' = After(pc)
    /\ UNCHANGED <<n, it, i, y, I, e, result, out, quad, calls, warnings, engine>>

\* y = lambda x: sqrt((g-cos(x))**2 + sin(x)**2), with g[i] in the plot cell
DefY ==
    /\ pc \in {"L113", "L173", "L223"}
    /\ y' = IF pc = "L223" THEN "lam_gi" ELSE "lam_g"
    /\ pc' = After(pc)
    /\ UNCHANGED <<n, it, i, g, I, e, result, out, quad, calls, warnings, engine>>

\* integrate.quad(y, 0, pi) is entered
QuadBegin ==
    /\ pc \in CallSites
    /\ ~quad.active
    /\ quad' = [active |-> TRUE, a |-> LowerLimit, b |-> UpperLimit,
                seen |-> {}, nev |-> 0, val |-> [num |-> 0, den |-> 1]]
    /\ UNCHANGED <<pc, n, it, i, g, y, I, e, result, out, calls, warnings, engine>>

\* the routine evaluates y at one more abscissa
QuadEval ==
    /\ quad.active
    /\ quad.nev < MaxEvals
    /\ \E x \in Abscissae :
         quad' = [quad EXCEPT !.seen = @ \cup {YRead}, !.nev = @ + 1,
                              !.val = Radicand(YRead, x)]
    /\ UNCHANGED <<pc, n, it, i, g, y, I, e, result, out, calls, warnings, engine>>

\* the termination codes the engine can give on integrand f
Codes(f) == IF f \in engine.hard THEN {1}
            ELSE IF f \in engine.easy THEN {0}
            ELSE IF Cardinality(engine.hard) < MaxHard THEN {0, 1}
            ELSE {0}

\* the call ends and I = ... is assigned
QuadReturn ==
    /\ quad.active
    /\ quad.nev >= 1
    /\ \E ier \in Codes(quad.seen) :
         LET est == QuadEstimate(quad.seen, quad.a, quad.b, ier)
             err == QuadAbserr(quad.seen, quad.a, quad.b, ier)
             how == QuadOutcome(ier)
         IN  /\ engine' = IF ier = 0
                          THEN [engine EXCEPT !.easy = @ \cup {quad.seen}]
                          ELSE [engine EXCEPT !.hard = @ \cup {quad.seen}]
             /\ calls' = Append(calls,
                   [cell |-> CellOf(pc), point |-> i, f |-> quad.seen,
                    a |-> quad.a, b |-> quad.b, ier |-> ier, outcome |-> how,
                    est |-> est, abserr |-> err])
             /\ warnings' = IF QuadWarns(ier)
                            THEN Append(warnings, [cell |-> CellOf(pc), point |-> i])
                            ELSE warnings
             /\ I' = IF how = "returned" THEN [est |-> est, abserr |-> err] ELSE I
             /\ pc' = IF how = "returned" THEN After(pc) ELSE "raised"
    /\ quad' = Idle
    /\ UNCHANGED <<n, it, i, g, y, e, result, out>>

\* print(I)
PrintI116 ==
    /\ pc = "L116"
    /\ out' = Append(out, [cell |-> CellOf(pc), line |-> <<I.est, I.abserr>>])
    /\ pc' = After(pc)
    /\ UNCHANGED <<n, it, i, g, y, I, e, result, quad, calls, warnings, engine>>

\* e = (1/pi)*I[0]
AssignE ==
    /\ pc \in {"L118", "L176", "L226"}
    /\ e' = Scale(I.est)
    /\ pc' = After(pc)
    /\ UNCHANGED <<n, it, i, g, y, I, result, out, quad, calls, warnings, engine>>

\* print(e)
PrintE ==
    /\ pc \in {"L120", "L178"}
    /\ out' = Append(out, [cell |-> CellOf(pc), line |-> <<e>>])
    /\ pc' = After(pc)
    /\ UNCHANGED <<n, it, i, g, y, I, e, result, quad, calls, warnings, engine>>

\* range(0,21): the for statement makes its iterator
RangeIter ==
    /\ pc \in {"L170r", "L218r", "L222r"}
    /\ it' = RangeStart
    /\ pc' = After(pc)
    /\ UNCHANGED <<n, i, g, y, I, e, result, out, quad, calls, warnings, engine>>

\* variant: a point whose quadrature did not converge is not passed
MutNextIndexRetry == IF I.est.ier # 0 THEN it ELSE it + 1
\* the index the iterator gives after the one it gives now
NextIndex == it + 1

\* variant: the body runs once before the first test
MutLoopContinuesDoWhile == it < n \/ it = RangeStart
\* whether the iterator has another index to give
LoopContinues == it < n

\* for i in range(0,21): the next index is bound to i, or the loop ends
ForNext ==
    /\ pc \in {"L170", "L218", "L222"}
    /\ IF LoopContinues
       THEN /\ i' = it
            /\ it' = NextIndex
            /\ pc' = Body(pc)
       ELSE /\ pc' = Exit(pc)
            /\ UNCHANGED <<i, it>>
    /\ UNCHANGED <<n, g, y, I, e, result, out, quad, calls, warnings, engine>>

\* g = 0.1*i
AssignG171 ==
    /\ pc = "L171"
    /\ g' = FloatG(GridValue(i))
    /\ pc' = After(pc)
    /\ UNCHANGED <<n, it, i, y, I, e, result, out, quad, calls, warnings, engine>>

\* result = np.zeros(21)
Zeros214 ==
    /\ pc = "L214"
    /\ result' = Zeros(n)
    /\ pc' = After(pc)
    /\ UNCHANGED <<n, it, i, g, y, I, e, out, quad, calls, warnings, engine>>

\* g = np.zeros(21)
Zeros215 ==
    /\ pc = "L215"
    /\ g' = ZerosG(n)
    /\ pc' = After(pc)
    /\ UNCHANGED <<n, it, i, y, I, e, result, out, quad, calls, warnings, engine>>

\* g[i] = 0.1*i
FillG219 ==
    /\ pc = "L219"
    /\ g' = [g EXCEPT !.arr[i + 1] = GridValue(i)]
    /\ pc' = After(pc)
    /\ UNCHANGED <<n, it, i, y, I, e, result, out, quad, calls, warnings, engine>>

\* variant: the store is one position off
MutStoreIndexNext == IF i + 2 <= Len(result) THEN i + 2 ELSE 1
\* the position result[i] of the array, counted from 1
StoreIndex == i + 1

\* variant: an estimate that did not converge is not stored
MutStoredValueChecked == IF e.ier = 0 THEN e ELSE result[StoreIndex]
\* the value result[i] = e stores: e as it is, with no look at I[1] or at
\* any warning
StoredValue == e

\* variant: result[:i+1] = e
MutStore227Slice ==
    /\ pc = "L227"
    /\ result' = [j \in 1..Len(result) |->
                    IF j <= StoreIndex THEN StoredValue ELSE result[j]]
    /\ pc' = After(pc)
    /\ UNCHANGED <<n, it, i, g, y, I, e, out, quad, calls, warnings, engine>>
\* result[i] = e
Store227 ==
    /\ pc = "L227"
    /\ result' = [result EXCEPT ![StoreIndex] = StoredValue]
    /\ pc' = After(pc)
    /\ UNCHANGED <<n, it, i, g, y, I, e, out, quad, calls, warnings, engine>>

Next ==
    \/ AssignG111
    \/ DefY
    \/ QuadBegin
    \/ QuadEval
    \/ QuadReturn
    \/ PrintI116
    \/ AssignE
    \/ PrintE
    \/ RangeIter
    \/ ForNext
    \/ AssignG171
    \/ Zeros214
    \/ Zeros215
    \/ FillG219
    \/ Store227

Spec == Init /\ [][Next]_vars

(* ---- the sweep loop alone ---- *)

\* The loop of lines 222-227 as the sweep of an arbitrary g array: the
\* arrays g and result have any length n in 0..MaxLen in place of the
\* notebook's 21, g holds any values (repeats included), and i, y, I, e
\* hold either nothing or what an earlier cell left in them.
SweepValues == {GridValue(k) : k \in 0..MaxVal}

\* I and e as the single-g cell leaves them
LeftPair ==
    [est |-> [tag |-> "integral", f |-> {SingleG}, a |-> "0", b |-> "pi", ier |-> 0],
     abserr |-> [tag |-> "abserr", f |-> {SingleG}, a |-> "0", b |-> "pi", ier |-> 0]]
LeftE == [tag |-> "eps", f |-> {SingleG}, a |-> "0", b |-> "pi", ier |-> 0]

InitSweep ==
    /\ pc = "L222r"
    /\ n \in 0..MaxLen
    /\ g \in {ArrayG(s) : s \in [1..n -> SweepValues]}
    /\ result = Zeros(n)
    /\ it = 0
    /\ \/ /\ i = -1
          /\ y = "unset"
          /\ I = NoPair
          /\ e = NoValue
          /\ engine = [hard |-> {}, easy |-> {}]
       \/ /\ i = NPoints - 1
          /\ y = "lam_g"
          /\ I = LeftPair
          /\ e = LeftE
          /\ engine = [hard |-> {}, easy |-> {{SingleG}}]
    /\ out = <<>>
    /\ quad = Idle
    /\ calls = <<>>
    /\ warnings = <<>>

NextSweep ==
    \/ RangeIter
    \/ ForNext
    \/ DefY
    \/ QuadBegin
    \/ QuadEval
    \/ QuadReturn
    \/ AssignE
    \/ Store227

SpecSweep == InitSweep /\ [][NextSweep]_vars

(* ---- the recorded run ---- *)

\* The notebook holds the output of the run that made it.  The outputs of
\* the numeric cells are stdout streams only: no IntegrationWarning was
\* issued, so every quadrature of that run converged.  SpecRecorded is the
\* notebook with the engine converging on every integrand of the grid.
InitRecorded ==
    /\ pc = "L111"
    /\ n = NPoints
    /\ it = 0
    /\ i = -1
    /\ g = UnsetG
    /\ y = "unset"
    /\ I = NoPair
    /\ e = NoValue
    /\ result = <<>>
    /\ out = <<>>
    /\ quad = Idle
    /\ calls = <<>>
    /\ warnings = <<>>
    /\ engine = [hard |-> {}, easy |-> {{Step * k} : k \in 0..(NPoints - 1)}]

SpecRecorded == InitRecorded /\ [][Next]_vars

\* The 21 lines the print sweep printed in the recorded run, in order.  A
\* line u.ddddddddddddddddd is <<u, its first nine decimals, its next nine
\* decimals>> (the line padded with zeros to eighteen decimals), so that
\* the printed number is kept digit for digit.
RecordedOutput ==
    << <<1, 0, 0>>,
       <<1, 2501566, 421584000>>,
       <<1, 10025253, 984578900>>,
       <<1, 22629514, 920858400>>,
       <<1, 40417086, 235830200>>,
       <<1, 63544409, 973372000>>,
       <<1, 92238583, 554497200>>,
       <<1, 126828667, 586972800>>,
       <<1, 167809508, 520726500>>,
       <<1, 216000914, 109723700>>,
       <<1, 273239544, 735162500>>,
       <<1, 342864022, 725127000>>,
       <<1, 419619274, 898229700>>,
       <<1, 500823243, 675016400>>,
       <<1, 585188300, 53977000>>,
       <<1, 671926221, 536195200>>,
       <<1, 760508122, 204593000>>,
       <<1, 850559336, 279340200>>,
       <<1, 941804304, 391379300>>,
       <<2, 34034558, 740953000>>,
       <<2, 127088819, 946743500>> >>

\* v is a value the recorded run shows: (1/pi) times a converged estimate
\* of the integral over [0, pi] of the integrand of one g of the grid
IsRecorded(v) ==
    /\ v.tag = "eps"
    /\ v.a = "0"
    /\ v.b = "pi"
    /\ v.ier = 0
    /\ \E k \in 1..Len(RecordedOutput) : v.f = {Step * (k - 1)}

\* the number the recorded run printed for v
Float(v) ==
    RecordedOutput[(CHOOSE k \in 1..Len(RecordedOutput) : v.f = {Step * (k - 1)})]

(* ---- what the claims speak of ---- *)

\* the quadrature calls made so far by cell c, in order
CallsOf(c) == SelectSeq(calls, LAMBDA r : r.cell = c)
\* the lines cell c has printed so far, in order
PrintedOf(c) == SelectSeq(out, LAMBDA r : r.cell = c)
\* v is (1/pi) times the estimate est
IsOverPi(v, est) ==
    v = [tag |-> "eps", f |-> est.f, a |-> est.a, b |-> est.b, ier |-> est.ier]
\* est is the estimate of the integral over [0, pi] of the integrand bound to gv
IsIntegralOf(est, gv) ==
    /\ est.tag = "integral"
    /\ est.f = {gv}
    /\ est.a = "0"
    /\ est.b = "pi"
\* the sweep of cell 4 is over, the sweep of cell 5 is over
PrintSweepOver == pc \in {"L214", "L215", "L218r", "L218", "L219", "L222r",
                          "L222", "L223", "L224", "L226", "L227", "done"}
PlotSweepOver == pc = "done"
\* the reference sequence of the specification, in units of 1e-8
Reference ==
    << 100000000, 100250157, 101002525, 102262951, 104041709,
       106354441, 109223858, 112682867, 116780951, 121600091,
       127323954, 134286402, 141961927, 150082324, 158518830,
       167192622, 176050812, 185055934, 194180430, 203403456,
       212708882 >>
\* a printed number and a reference number rounded to six significant
\* digits; both are in [1, 10), so that is five decimals
RoundedPrinted(p) == (p[1] * 1000000000 + p[2] + 5000) \div 10000
RoundedReference(r) == (r + 500) \div 1000
\* p <= q for two printed numbers
PrintedLeq(p, q) ==
    \/ p[1] < q[1]
    \/ p[1] = q[1] /\ p[2] < q[2]
    \/ p[1] = q[1] /\ p[2] = q[2] /\ p[3] <= q[3]

(* ---- C1 ---- *)

\* C1: the value recorded for a sweep point (the k-th line printed by the
\* print sweep, the entry result[k] of the plot sweep) is (1/pi) times the
\* estimate returned by that point's quadrature call; that call was made
\* with the limits 0 and pi, and every evaluation of the integrand it made
\* read the g of that point.  While a call is running, the evaluations made
\* so far have read the current point's g and the limits are 0 and pi.
C1_RecordedIsScaledEstimate ==
    LET calls4 == CallsOf(4)
        calls5 == CallsOf(5)
        printed4 == PrintedOf(4)
    IN
    /\ \A k \in 1..Len(printed4) :
         LET c == calls4[k]
         IN  /\ c.point = k - 1
             /\ IsIntegralOf(c.est, 10 * (k - 1))
             /\ printed4[k].line = <<[tag |-> "eps", f |-> c.est.f,
                   a |-> "0", b |-> "pi", ier |-> c.est.ier]>>
    /\ \A k \in 1..Len(result) :
         result[k] # Zero =>
           LET c == calls5[k]
           IN  /\ c.point = k - 1
               /\ IsIntegralOf(c.est, g.arr[k])
               /\ IsOverPi(result[k], c.est)
    /\ quad.active =>
         /\ quad.a = "0"
         /\ quad.b = "pi"
         /\ quad.seen \subseteq {IF g.kind = "float" THEN g.val ELSE g.arr[i + 1]}

\* both sweeps have recorded their last point
C1_Witness ==
    LET printed4 == PrintedOf(4)
    IN
    /\ pc = "done"
    /\ Len(printed4) = 21
    /\ result[21] # Zero
    /\ result[21].f = {200}

(* ---- C2 ---- *)

\* C2: in the plot sweep result has as many entries as g, an entry that has
\* been written holds the value computed from the g at the same position,
\* and when the sweep is over every position has been written.
C2_OrderPreserved ==
    /\ (g.kind = "ndarray" /\ pc # "L215") => Len(result) = Len(g.arr)
    /\ g.kind = "ndarray" =>
         \A k \in 1..Len(result) :
           result[k] # Zero => (result[k].tag = "eps" /\ result[k].f = {g.arr[k]})
    /\ PlotSweepOver =>
         /\ Len(result) = 21
         /\ \A k \in 1..Len(result) : result[k].tag = "eps"

\* the sweep is over and the first and last entries differ as their g do
C2_Witness ==
    LET calls5 == CallsOf(5)
    IN
    /\ PlotSweepOver
    /\ result[1].f = {0}
    /\ result[21].f = {200}
    /\ Len(calls5) = 21

(* ---- C3 ---- *)

C5_SameGSameValue ==
    \A j, k \in 1..Len(result) :
      (result[j] # Zero /\ result[k] # Zero /\ g.arr[j] = g.arr[k])
        => result[j] = result[k]

\* a finished sweep, started on what an earlier cell left behind, in which
\* a g value comes back after a different one
C5_Witness ==
    /\ pc = "done"
    /\ Len(g.arr) = 3
    /\ g.arr[1] = g.arr[3]
    /\ g.arr[2] # g.arr[1]
    /\ result[1].tag = "eps"
    /\ result[3].tag = "eps"
    /\ SingleG \in UNION engine.easy

(* ---- C7 ---- *)

C8_OneCallPerPoint ==
    LET calls4 == CallsOf(4)
        calls5 == CallsOf(5)
    IN
    /\ \A k \in 1..Len(calls4) : calls4[k].point = k - 1
    /\ \A k \in 1..Len(calls5) : calls5[k].point = k - 1
    /\ PrintSweepOver => Len(calls4) = 21
    /\ PlotSweepOver => Len(calls5) = 21
    /\ Len(calls) <= 1 + 21 + 21

\* both sweeps are over, one of their calls did not converge, and the
\* number of calls is still 21 each
C8_Witness ==
    LET calls4 == CallsOf(4)
        calls5 == CallsOf(5)
    IN
    /\ PlotSweepOver
    /\ Len(calls4) = 21
    /\ Len(calls5) = 21
    /\ \E k \in 1..21 : calls4[k].ier = 1

(* ---- C9 ---- *)

C10_Grid ==
    LET calls4 == CallsOf(4)
        calls5 == CallsOf(5)
    IN
    /\ \A cs \in {calls4, calls5} :
         \A k \in 1..Len(cs) :
           /\ cs[k].f = {10 * (k - 1)}
           /\ k > 1 => \A u \in cs[k - 1].f : \A v \in cs[k].f : u < v
    /\ PrintSweepOver =>
         /\ Len(calls4) = 21
         /\ calls4[1].f = {0}
         /\ calls4[21].f = {200}
         /\ Len(PrintedOf(4)) = 21
    /\ pc \in {"L222r", "L222", "L223", "L224", "L226", "L227", "done"} =>
         g.arr = [k \in 1..21 |-> 10 * (k - 1)]
    /\ PlotSweepOver =>
         /\ Len(calls5) = 21
         /\ Len(result) = 21
         /\ \A k \in 1..21 : result[k] # Zero

\* both sweeps are over and the last point sampled is g = 2.0
C10_Witness ==
    LET calls5 == CallsOf(5)
        printed4 == PrintedOf(4)
    IN
    /\ PlotSweepOver
    /\ g.arr[21] = 200
    /\ calls5[21].f = {200}
    /\ Len(printed4) = 21

(* ---- C11 ---- *)

BuiltInSweep ==
    \/ y = "lam_gi"
    \/ (y = "lam_g" /\ \E k \in 1..Len(calls) : calls[k].cell = 4)

\* C15: the g used by the closure an iteration of a sweep built is fixed
\* when the closure is built: as long as y is that closure (no new lambda
\* is built), no step, in particular no assignment to i or to g, changes
\* the g the closure would use.
C15_ClosureCapturesByValue ==
    [][(BuiltInSweep /\ pc \notin {"L113", "L173", "L223"} /\ y' = y)
         => YRead' = YRead]_vars

(* ---- C16 ---- *)

\* the statements of the plot cell's sweep loop
PlotLoop == {"L222", "L223", "L224", "L226", "L227"}
\* the positions of result that hold a recorded value
Written == {j \in 1..Len(result) : result[j] # Zero}
\* the number of iterations of the sweep loop that are over
Completed == IF pc \in {"L223", "L224", "L226", "L227"} THEN it - 1 ELSE it

\* C16: a step of the plot cell's sweep loop leaves the g array as it is
\* and changes no entry of result other than result[i], and that one only
\* at result[i] = e; after the step the written entries of result are
\* exactly the first k, k being the number of iterations that are over,
\* and the others are still 0.
C16_StoreFrame ==
    [][(pc \in PlotLoop) =>
         (/\ g' = g
          /\ Len(result') = Len(result)
          /\ \A j \in 1..Len(result) :
               (pc # "L227" \/ j # i + 1) => result'[j] = result[j]
          /\ pc = "L227" => (result[i + 1] = Zero /\ result'[i + 1] = e)
          /\ Written' = 1..Completed')
      ]_vars

\* five iterations of the plot sweep are over: result[4] is written,
\* result[5] is not, and the g array holds the grid
C16_Witness ==
    /\ pc = "L222"
    /\ it = 5
    /\ Len(result) = 21
    /\ result[5] # Zero
    /\ result[6] = Zero
    /\ g.kind = "ndarray"
    /\ g.arr[6] = 50

====
